---- MODULE Spec2Model ----
(***************************************************************************)
(* Container manager (ser/app.py) and in-container worker (ser/worker.py)  *)
(* of the workflow control plane.                                          *)
(*                                                                         *)
(* Manager: the tracking tables `containers` and `active_ports`, the       *)
(* Docker runtime they are reconciled against, and the request handlers    *)
(* start_container, stop_container and container_health.  Flask serves     *)
(* every request on its own thread and the handlers take no lock, so a     *)
(* handler is a sequence of steps, one per runtime call or table access.   *)
(*                                                                         *)
(* Worker: the execution table, the history log, the FIFO queue and the    *)
(* queue-processor thread.                                                 *)
(***************************************************************************)
EXTENDS Naturals, Integers, Sequences, FiniteSets, TLC

\* ------------------------------------------------------------------ bounds
\* Fresh container ids the runtime hands out in one behaviour.
MaxCid == 2
\* Requests served in one behaviour of the concurrent manager.
MaxRequests == 3
\* Executions submitted to the worker in one behaviour.
MaxExec == 2
\* Clock ticks, each of TickSeconds, in one behaviour of the worker.
MaxTicks == 2
TickSeconds == 2000

\* ------------------------------------------------------- program constants
BASE_PORT == 5002
MAX_PORT == 5050
\* range(BASE_PORT, BASE_PORT + 100) in start_container
PORT_ATTEMPTS == 100
\* cleanup_old_executions: older than 3600 seconds
RETENTION_SECONDS == 3600
\* cleanup_old_executions: len(execution_history) > 20
HISTORY_CAP == 20

\* ------------------------------------------------------------- input sets
Threads == {"t1", "t2"}
Artifacts == {"a1", "a2"}
Cids == 1 .. MaxCid
\* Host ports bound by processes other than managed containers.
ExtPortChoices == {{}, {BASE_PORT}}

NoCid == 0
NoPort == 0
NoArt == "none"

VARIABLES
    \* manager (ser/app.py)
    containers,     \* artifact_id -> ContainerInfo
    active_ports,   \* port -> artifact_id
    rt,             \* Docker: container id -> container, for existing containers
    nextCid,        \* next fresh container id
    hostPorts,      \* ports bound outside the manager
    th,             \* request-handler threads: position and locals
    resp,           \* the response returned last
    requests,       \* requests accepted so far
    \* worker (ser/worker.py)
    active_executions,
    execution_history,
    execution_queue,
    consumer,       \* queue-processor threads: position and locals
    submitter,      \* /execute handler threads
    now,            \* time.time(), in ticks
    uuids,          \* execution ids generated so far
    seen,           \* exec id -> statuses its record has held
    termAt,         \* exec id -> time its record became terminal
    reader,         \* /status handler threads: position and locals
    sresp,          \* the /status response returned last
    prior,          \* exec id -> ids whose submit had returned when its began
                    \* (kept by SubmitRegisterObserved)
    engine_runs     \* exec ids in the order executor.execute was entered

mgrVars == <<containers, active_ports, rt, nextCid, hostPorts, th, resp, requests>>
wrkVars == <<active_executions, execution_history, execution_queue, consumer,
             submitter, now, uuids, seen, termAt, reader, sresp,
             prior, engine_runs>>
vars == <<mgrVars, wrkVars>>

\* ----------------------------------------------------------- dict helpers
Put(f, k, v) == [x \in DOMAIN f \cup {k} |-> IF x = k THEN v ELSE f[x]]
Del(f, k) == [x \in DOMAIN f \ {k} |-> f[x]]
\* a purge that forgets the port table
ReleaseNothing(ports, p) == ports

\* `if port in active_ports: del active_ports[port]`
Release(ports, p) == IF p \in DOMAIN ports THEN Del(ports, p) ELSE ports

\* ------------------------------------------------------------ the runtime
ContainerName(artifact_id) == <<"workflow", artifact_id>>

\* docker_client.containers.get(id): what the runtime answers to a lookup.
\* Any runtime call can also fail with an APIError.
LookupAnswers(cid) ==
    (IF cid \notin DOMAIN rt THEN {"missing"}
     ELSE IF rt[cid].state = "running" THEN {"running"} ELSE {"notrunning"})
    \cup {"apierror"}

ByName(name) == {c \in DOMAIN rt : rt[c].name = name}

\* Host ports a new binding conflicts with.
BoundPorts == {rt[c].port : c \in {d \in DOMAIN rt : rt[d].state = "running"}}
              \cup hostPorts

\* ------------------------------------------------------------- the tables
ContainerInfo(aid, cid, port) ==
    [artifact_id |-> aid, container_id |-> cid, port |-> port,
     status |-> "running", health_status |-> "unknown", error |-> "none"]

IdleThread ==
    [pc |-> "idle", op |-> "none", art |-> NoArt, cid |-> NoCid, port |-> NoPort,
     old |-> NoCid, obs |-> "none", readopt |-> FALSE, replaced |-> FALSE,
     sent |-> {}, stale |-> NoCid, todo |-> {}, swept |-> << >>]

\* readopt: the call was a start directly after a successful start of the
\* same artifact, with that start's container still running.
\* sent: the HTTP requests the call sent to the worker of the artifact.
Response(op, art, status, cid, port, path, readopt, sent) ==
    [op |-> op, art |-> art, status |-> status, cid |-> cid, port |-> port,
     path |-> path, readopt |-> readopt, sent |-> sent]

\* The handler of thread t returns: its locals die, the response is recorded.
Return(t, status, cid, port, path) ==
    /\ th' = [th EXCEPT ![t] = IdleThread]
    /\ resp' = Response(th[t].op, th[t].art, status, cid, port, path,
                        th[t].readopt, th[t].sent)

Goto(t, pc) == th' = [th EXCEPT ![t].pc = pc]

MinOf(S) == CHOOSE x \in S : \A y \in S : x <= y

\* find_available_port(): the first port of range(BASE_PORT, MAX_PORT + 1)
\* not in active_ports; no handler calls it.
find_available_port ==
    LET free == {p \in BASE_PORT .. MAX_PORT : p \notin DOMAIN active_ports}
    IN IF free = {} THEN NoPort ELSE MinOf(free)

\* ------------------------------------------------- manager: request entry
AllIdle == \A t \in Threads : th[t].pc = "idle"

Running(cid) == cid \in DOMAIN rt /\ rt[cid].state = "running"

EntryPc(op) ==
    CASE op = "start" -> "start_check"
      [] op = "stop" -> "stop_check"
      [] op = "execute" -> "exec_check"
      [] OTHER -> "health_check"

\* A request for artifact a arrives and is given to the idle thread t.
\* readopt notes a start that directly follows a successful start of the
\* same artifact whose container is still running.
Begin(t, op, a) ==
    /\ th[t].pc = "idle"
    /\ th' = [th EXCEPT ![t] =
                [IdleThread EXCEPT
                   !.pc = EntryPc(op), !.op = op, !.art = a,
                   !.readopt = /\ op = "start"
                               /\ resp.op = "start" /\ resp.art = a
                               /\ resp.status = "success"
                               /\ Running(resp.cid)]]
    /\ UNCHANGED <<containers, active_ports, rt, nextCid, hostPorts, resp>>
    /\ UNCHANGED wrkVars

\* ------------------------------------------------ manager: start_container
\* `if artifact_id in containers: existing_container = containers[artifact_id]`
StartCheck(t) ==
    /\ th[t].pc = "start_check"
    /\ IF th[t].art \in DOMAIN containers
       THEN th' = [th EXCEPT ![t].pc = "start_get",
                             ![t].cid = containers[th[t].art].container_id,
                             ![t].port = containers[th[t].art].port]
       ELSE th' = [th EXCEPT ![t].pc = "c_get", ![t].port = BASE_PORT]
    /\ UNCHANGED <<containers, active_ports, rt, nextCid, hostPorts, requests, resp>>
    /\ UNCHANGED wrkVars

\* start without the `container.status == 'running'` test: always recreate.
StartAfterLookupRecreates(ans) ==
    CASE ans \in {"running", "notrunning"} -> "c_get"
      [] ans = "missing" -> "start_purge"
      [] OTHER -> "error"

\* What start does with the runtime's answer about the tracked container.
StartAfterLookup(ans) ==
    CASE ans = "running" -> "return"
      [] ans = "notrunning" -> "c_get"
      [] ans = "missing" -> "start_purge"
      [] OTHER -> "error"

\* `container = docker_client.containers.get(existing_container.container_id)`
StartGet(t) ==
    /\ th[t].pc = "start_get"
    /\ \E ans \in LookupAnswers(th[t].cid) :
         LET nxt == StartAfterLookup(ans) IN
         CASE nxt = "return" ->
                Return(t, "success", th[t].cid, th[t].port, "already_running")
           [] nxt = "error" ->
                Return(t, "error", NoCid, NoPort, "apierror")
           [] OTHER ->
                /\ th' = [th EXCEPT ![t].pc = nxt,
                            ![t].port = IF nxt = "c_get" THEN BASE_PORT ELSE @]
                /\ UNCHANGED resp
    /\ UNCHANGED <<containers, active_ports, rt, nextCid, hostPorts, requests>>
    /\ UNCHANGED wrkVars

\* a stale-record path that keeps the port reserved
StartPurgeKeepsPort(t) ==
    /\ th[t].pc = "start_purge"
    /\ th[t].art \in DOMAIN containers
    /\ containers' = Del(containers, th[t].art)
    /\ th' = [th EXCEPT ![t].pc = "c_get", ![t].port = BASE_PORT,
                        ![t].stale = th[t].cid]
    /\ UNCHANGED <<active_ports, resp, rt, nextCid, hostPorts, requests>>
    /\ UNCHANGED wrkVars

\* except docker.errors.NotFound: drop the stale record and its port.
\* `del containers[artifact_id]` raises KeyError when the record is gone.
StartPurge(t) ==
    /\ th[t].pc = "start_purge"
    /\ active_ports' = Release(active_ports, th[t].port)
    /\ IF th[t].art \in DOMAIN containers
       THEN /\ containers' = Del(containers, th[t].art)
            /\ th' = [th EXCEPT ![t].pc = "c_get", ![t].port = BASE_PORT,
                                ![t].stale = th[t].cid]
            /\ UNCHANGED resp
       ELSE /\ UNCHANGED containers
            /\ Return(t, "error", NoCid, NoPort, "keyerror")
    /\ UNCHANGED <<rt, nextCid, hostPorts, requests>>
    /\ UNCHANGED wrkVars

\* create_docker_container: `old_container = docker_client.containers.get(name)`
CreateGet(t) ==
    /\ th[t].pc = "c_get"
    /\ \/ /\ ByName(ContainerName(th[t].art)) = {}
          /\ Goto(t, "c_run")
          /\ UNCHANGED resp
       \/ \E c \in ByName(ContainerName(th[t].art)) :
            /\ th' = [th EXCEPT ![t].pc = "c_rm", ![t].old = c]
            /\ UNCHANGED resp
       \/ Return(t, "error", NoCid, NoPort, "apierror")
    /\ UNCHANGED <<containers, active_ports, rt, nextCid, hostPorts, requests>>
    /\ UNCHANGED wrkVars

\* create_docker_container: `old_container.stop(); old_container.remove()`;
\* NotFound from either is passed over.
CreateRemoveOld(t) ==
    /\ th[t].pc = "c_rm"
    /\ \/ /\ th[t].old \in DOMAIN rt
          /\ rt' = Del(rt, th[t].old)
          /\ th' = [th EXCEPT ![t].pc = "c_run",
                       ![t].replaced = @ \/ Running(th[t].old)]
          /\ UNCHANGED resp
       \/ /\ th[t].old \notin DOMAIN rt
          /\ Goto(t, "c_run")
          /\ UNCHANGED <<rt, resp>>
       \/ /\ Return(t, "error", NoCid, NoPort, "apierror")
          /\ UNCHANGED rt
    /\ UNCHANGED <<containers, active_ports, nextCid, hostPorts, requests>>
    /\ UNCHANGED wrkVars

\* a loop that gives up at the first port conflict
NextCandidateGivesUp(port) == NoPort

\* The loop `for port in range(BASE_PORT, BASE_PORT + 100)` after a
\* "port is already allocated" error: the next candidate, or none.
NextCandidate(port) ==
    IF port + 1 < BASE_PORT + PORT_ATTEMPTS THEN port + 1 ELSE NoPort

\* a start that enters the port in the table before the container runs
CreateRunReservesFirst(t) ==
    /\ th[t].pc = "c_run"
    /\ active_ports' = Put(active_ports, th[t].port, th[t].art)
    /\ \/ /\ ByName(ContainerName(th[t].art)) = {}
          /\ th[t].port \notin BoundPorts
          /\ nextCid <= MaxCid
          /\ rt' = Put(rt, nextCid, [name |-> ContainerName(th[t].art),
                                     port |-> th[t].port, state |-> "running"])
          /\ nextCid' = nextCid + 1
          /\ th' = [th EXCEPT ![t].pc = "register", ![t].cid = nextCid]
          /\ UNCHANGED resp
       \/ /\ ByName(ContainerName(th[t].art)) = {}
          /\ th[t].port \in BoundPorts
          /\ IF NextCandidate(th[t].port) # NoPort
             THEN /\ th' = [th EXCEPT ![t].pc = "c_get",
                                      ![t].port = NextCandidate(th[t].port)]
                  /\ UNCHANGED resp
             ELSE Return(t, "error", NoCid, NoPort, "no_ports")
          /\ UNCHANGED <<rt, nextCid>>
       \/ /\ Return(t, "error", NoCid, NoPort, "apierror")
          /\ UNCHANGED <<rt, nextCid>>
    /\ UNCHANGED <<containers, hostPorts, requests>>
    /\ UNCHANGED wrkVars

\* create_docker_container: `docker_client.containers.run(...)`, then the
\* inspection of the port mapping, which reports the requested host port.
CreateRun(t) ==
    /\ th[t].pc = "c_run"
    /\ \/ \* created and started
          /\ ByName(ContainerName(th[t].art)) = {}
          /\ th[t].port \notin BoundPorts
          /\ nextCid <= MaxCid
          /\ rt' = Put(rt, nextCid, [name |-> ContainerName(th[t].art),
                                     port |-> th[t].port, state |-> "running"])
          /\ nextCid' = nextCid + 1
          /\ th' = [th EXCEPT ![t].pc = "register", ![t].cid = nextCid]
          /\ UNCHANGED resp
       \/ \* APIError: port is already allocated
          /\ ByName(ContainerName(th[t].art)) = {}
          /\ th[t].port \in BoundPorts
          /\ IF NextCandidate(th[t].port) # NoPort
             THEN /\ th' = [th EXCEPT ![t].pc = "c_get",
                                      ![t].port = NextCandidate(th[t].port)]
                  /\ UNCHANGED resp
             ELSE Return(t, "error", NoCid, NoPort, "no_ports")
          /\ UNCHANGED <<rt, nextCid>>
       \/ \* APIError: the container name is already in use
          /\ ByName(ContainerName(th[t].art)) # {}
          /\ Return(t, "error", NoCid, NoPort, "name_conflict")
          /\ UNCHANGED <<rt, nextCid>>
       \/ \* any other APIError
          /\ Return(t, "error", NoCid, NoPort, "apierror")
          /\ UNCHANGED <<rt, nextCid>>
    /\ UNCHANGED <<containers, active_ports, hostPorts, requests>>
    /\ UNCHANGED wrkVars

\* `containers[artifact_id] = ContainerInfo(...); active_ports[host_port] = artifact_id`
Register(t) ==
    /\ th[t].pc = "register"
    /\ containers' = Put(containers, th[t].art,
                         ContainerInfo(th[t].art, th[t].cid, th[t].port))
    /\ active_ports' = Put(active_ports, th[t].port, th[t].art)
    /\ Return(t, "success", th[t].cid, th[t].port, "created")
    /\ UNCHANGED <<rt, nextCid, hostPorts, requests>>
    /\ UNCHANGED wrkVars

\* ------------------------------------------------- manager: stop_container
\* `if artifact_id not in containers: return success`
StopCheck(t) ==
    /\ th[t].pc = "stop_check"
    /\ IF th[t].art \notin DOMAIN containers
       THEN Return(t, "success", NoCid, NoPort, "norecord")
       ELSE /\ th' = [th EXCEPT ![t].pc = "stop_get",
                                ![t].cid = containers[th[t].art].container_id,
                                ![t].port = containers[th[t].art].port]
            /\ UNCHANGED resp
    /\ UNCHANGED <<containers, active_ports, rt, nextCid, hostPorts, requests>>
    /\ UNCHANGED wrkVars

\* What stop does with the runtime's answer to the lookup.
StopAfterLookup(ans) ==
    CASE ans \in {"running", "notrunning"} -> "stop_rm"
      [] ans = "missing" -> "stop_purge_nf"
      [] OTHER -> "error"

\* `container = docker_client.containers.get(container_info.container_id)`
StopGet(t) ==
    /\ th[t].pc = "stop_get"
    /\ \E ans \in LookupAnswers(th[t].cid) :
         IF StopAfterLookup(ans) = "error"
         THEN Return(t, "error", NoCid, NoPort, "apierror")
         ELSE /\ Goto(t, StopAfterLookup(ans))
              /\ UNCHANGED resp
    /\ UNCHANGED <<containers, active_ports, rt, nextCid, hostPorts, requests>>
    /\ UNCHANGED wrkVars

\* `container.stop(timeout=10); container.remove(force=True)`
StopRemove(t) ==
    /\ th[t].pc = "stop_rm"
    /\ \/ \* stopped and removed
          /\ th[t].cid \in DOMAIN rt
          /\ rt' = Del(rt, th[t].cid)
          /\ Goto(t, "stop_purge_ok")
          /\ UNCHANGED resp
       \/ \* NotFound: removed since the lookup
          /\ th[t].cid \notin DOMAIN rt
          /\ Goto(t, "stop_purge_nf")
          /\ UNCHANGED <<rt, resp>>
       \/ \* APIError from stop: nothing happened
          /\ Return(t, "error", NoCid, NoPort, "apierror")
          /\ UNCHANGED rt
       \/ \* stopped, then APIError from remove
          /\ th[t].cid \in DOMAIN rt
          /\ rt' = [rt EXCEPT ![th[t].cid].state = "exited"]
          /\ Return(t, "error", NoCid, NoPort, "apierror")
    /\ UNCHANGED <<containers, active_ports, nextCid, hostPorts, requests>>
    /\ UNCHANGED wrkVars

\* "Remove from tracking", after the removal and in the NotFound handler:
\* `if container_info.port in active_ports: del active_ports[...]`,
\* `del containers[artifact_id]`, return success.
StopPurge(t) ==
    /\ th[t].pc \in {"stop_purge_ok", "stop_purge_nf"}
    /\ active_ports' = Release(active_ports, th[t].port)
    /\ IF th[t].art \in DOMAIN containers
       THEN /\ containers' = Del(containers, th[t].art)
            /\ Return(t, "success", NoCid, NoPort,
                      IF th[t].pc = "stop_purge_ok" THEN "stopped" ELSE "notfound")
       ELSE /\ UNCHANGED containers
            /\ Return(t, "error", NoCid, NoPort, "keyerror")
    /\ UNCHANGED <<rt, nextCid, hostPorts, requests>>
    /\ UNCHANGED wrkVars

\* ----------------------------------------------- manager: container_health
\* `if artifact_id not in containers: return stopped`
HealthCheck(t) ==
    /\ th[t].pc = "health_check"
    /\ IF th[t].art \notin DOMAIN containers
       THEN Return(t, "stopped", NoCid, NoPort, "norecord")
       ELSE /\ th' = [th EXCEPT ![t].pc = "health_get",
                                ![t].cid = containers[th[t].art].container_id,
                                ![t].port = containers[th[t].art].port]
            /\ UNCHANGED resp
    /\ UNCHANGED <<containers, active_ports, rt, nextCid, hostPorts, requests>>
    /\ UNCHANGED wrkVars

\* What the worker answers to an HTTP request of the manager: a status
\* code, or nothing (connection failure, timeout).
ProbeAnswers == {"200", "204", "500", "unreachable"}

\* `health_response.status_code == 200`
Is200(ans) == ans = "200"

\* `response.ok`: a status code below 400
ResponseOk(ans) == ans \in {"200", "204"}

\* containers.get, inspect_container and the HTTP probe: what health observes.
HealthGet(t) ==
    /\ th[t].pc = "health_get"
    /\ \E ans \in LookupAnswers(th[t].cid) :
         CASE ans = "missing" ->
                /\ Goto(t, "health_purge")
                /\ UNCHANGED resp
           [] ans = "notrunning" ->
                /\ th' = [th EXCEPT ![t].pc = "health_update", ![t].obs = "stopped"]
                /\ UNCHANGED resp
           [] ans = "running" ->
                \E probe \in ProbeAnswers :
                  /\ th' = [th EXCEPT ![t].pc = "health_update", ![t].obs = probe]
                  /\ UNCHANGED resp
           [] OTHER -> Return(t, "error", NoCid, NoPort, "apierror")
    /\ UNCHANGED <<containers, active_ports, rt, nextCid, hostPorts, requests>>
    /\ UNCHANGED wrkVars

\* a NotFound handler that reports stopped and keeps the record
HealthPurgeKeepsRecord(t) ==
    /\ th[t].pc = "health_purge"
    /\ Return(t, "stopped", NoCid, NoPort, "notfound")
    /\ UNCHANGED <<containers, active_ports, rt, nextCid, hostPorts, requests>>
    /\ UNCHANGED wrkVars

\* except docker.errors.NotFound: release the port, delete the record.
HealthPurge(t) ==
    /\ th[t].pc = "health_purge"
    /\ active_ports' = Release(active_ports, th[t].port)
    /\ IF th[t].art \in DOMAIN containers
       THEN /\ containers' = Del(containers, th[t].art)
            /\ Return(t, "stopped", NoCid, NoPort, "notfound")
       ELSE /\ UNCHANGED containers
            /\ Return(t, "error", NoCid, NoPort, "keyerror")
    /\ UNCHANGED <<rt, nextCid, hostPorts, requests>>
    /\ UNCHANGED wrkVars

\* The record as health rewrites it for each observation.
HealthRecord(rec, obs) ==
    CASE obs = "stopped" ->
           [rec EXCEPT !.status = "stopped", !.health_status = "stopped"]
      [] Is200(obs) ->
           [rec EXCEPT !.status = "running", !.health_status = "healthy",
                       !.error = "none"]
      [] obs = "unreachable" ->
           [rec EXCEPT !.status = "error", !.health_status = "unreachable",
                       !.error = "worker_unreachable"]
      [] OTHER ->
           [rec EXCEPT !.status = "error", !.health_status = "error",
                       !.error = "worker_status"]

HealthVerdict(obs) ==
    CASE obs = "stopped" -> "stopped"
      [] Is200(obs) -> "running"
      [] OTHER -> "error"

\* a health check that drops the record on every verdict but running
HealthUpdateDropsUnhealthy(t) ==
    /\ th[t].pc = "health_update"
    /\ th[t].art \in DOMAIN containers
    /\ IF Is200(th[t].obs)
       THEN /\ containers' = [containers EXCEPT
                                ![th[t].art] = HealthRecord(@, th[t].obs)]
            /\ UNCHANGED active_ports
       ELSE /\ containers' = Del(containers, th[t].art)
            /\ active_ports' = Release(active_ports, th[t].port)
    /\ Return(t, HealthVerdict(th[t].obs), NoCid, NoPort, th[t].obs)
    /\ UNCHANGED <<rt, nextCid, hostPorts, requests>>
    /\ UNCHANGED wrkVars

\* `containers[artifact_id].status = ...` and the response.
HealthUpdate(t) ==
    /\ th[t].pc = "health_update"
    /\ IF th[t].art \in DOMAIN containers
       THEN /\ containers' = [containers EXCEPT
                                ![th[t].art] = HealthRecord(@, th[t].obs)]
            /\ Return(t, HealthVerdict(th[t].obs), NoCid, NoPort, th[t].obs)
       ELSE /\ UNCHANGED containers
            /\ Return(t, "error", NoCid, NoPort, "keyerror")
    /\ UNCHANGED <<active_ports, rt, nextCid, hostPorts, requests>>
    /\ UNCHANGED wrkVars

\* ---------------------------------------------- manager: container_execute
\* an execute that probes the worker port before it looks the record up
ExecCheckProbesFirst(t) ==
    /\ th[t].pc = "exec_check"
    /\ IF th[t].art \notin DOMAIN containers
       THEN /\ th' = [th EXCEPT ![t] = IdleThread]
            /\ resp' = Response(th[t].op, th[t].art, "error", NoCid, NoPort,
                                "container_not_found", th[t].readopt, {"health"})
       ELSE IF containers[th[t].art].status # "running"
       THEN Return(t, "error", NoCid, NoPort, "container_not_running")
       ELSE /\ th' = [th EXCEPT ![t].pc = "exec_probe",
                                ![t].port = containers[th[t].art].port]
            /\ UNCHANGED resp
    /\ UNCHANGED <<containers, active_ports, rt, nextCid, hostPorts, requests>>
    /\ UNCHANGED wrkVars

\* an execute without the status test
ExecCheckIgnoresStatus(t) ==
    /\ th[t].pc = "exec_check"
    /\ IF th[t].art \notin DOMAIN containers
       THEN Return(t, "error", NoCid, NoPort, "container_not_found")
       ELSE /\ th' = [th EXCEPT ![t].pc = "exec_probe",
                                ![t].port = containers[th[t].art].port]
            /\ UNCHANGED resp
    /\ UNCHANGED <<containers, active_ports, rt, nextCid, hostPorts, requests>>
    /\ UNCHANGED wrkVars

\* `container_info = containers.get(artifact_id)`: 404 without a record,
\* 400 when `container_info.status != 'running'`.
ExecCheck(t) ==
    /\ th[t].pc = "exec_check"
    /\ IF th[t].art \notin DOMAIN containers
       THEN Return(t, "error", NoCid, NoPort, "container_not_found")
       ELSE IF containers[th[t].art].status # "running"
       THEN Return(t, "error", NoCid, NoPort, "container_not_running")
       ELSE /\ th' = [th EXCEPT ![t].pc = "exec_probe",
                                ![t].port = containers[th[t].art].port]
            /\ UNCHANGED resp
    /\ UNCHANGED <<containers, active_ports, rt, nextCid, hostPorts, requests>>
    /\ UNCHANGED wrkVars

\* `requests.get(f"http://localhost:{port}/health", timeout=1)`: whatever
\* the worker answers is logged and ignored.
ExecProbe(t) ==
    /\ th[t].pc = "exec_probe"
    /\ th' = [th EXCEPT ![t].pc = "exec_forward",
                        ![t].sent = @ \cup {"health"}]
    /\ UNCHANGED <<containers, active_ports, rt, nextCid, hostPorts, requests, resp>>
    /\ UNCHANGED wrkVars

\* What the handler returns for the worker's answer to the forwarded request.
ExecVerdict(ans) == IF ResponseOk(ans) THEN "accepted" ELSE "error"

\* `requests.post(f"http://localhost:{port}/execute", ...)` and the response.
ExecForward(t) ==
    /\ th[t].pc = "exec_forward"
    /\ \E ans \in ProbeAnswers :
         resp' = Response(th[t].op, th[t].art, ExecVerdict(ans), NoCid, NoPort,
                          ans, th[t].readopt, th[t].sent \cup {"execute"})
    /\ th' = [th EXCEPT ![t] = IdleThread]
    /\ UNCHANGED <<containers, active_ports, rt, nextCid, hostPorts, requests>>
    /\ UNCHANGED wrkVars

\* ------------------------------------------------ runtime-side events
\* A container's process exits, or is stopped outside the manager.
RuntimeExit(c) ==
    /\ Running(c)
    /\ rt' = [rt EXCEPT ![c].state = "exited"]
    /\ UNCHANGED <<containers, active_ports, nextCid, hostPorts, requests, th, resp>>
    /\ UNCHANGED wrkVars

\* A container is removed outside the manager.
RuntimeRemove(c) ==
    /\ c \in DOMAIN rt
    /\ rt' = Del(rt, c)
    /\ UNCHANGED <<containers, active_ports, nextCid, hostPorts, requests, th, resp>>
    /\ UNCHANGED wrkVars

\* ===================================================== worker (worker.py)
ExecIds == 1 .. MaxExec
Submitters == {"s1", "s2"}
\* The JSON value of 'content': a workflow text, or a value without a length.
Contents == {"text", "number"}

\* The threads running process_execution_queue: the one started at import.
\* (a second processor thread started beside it)
TwoQueueProcessors == {"queue_processor", "queue_processor_2"}

Consumers == {"queue_processor"}

ExecutionInfo(id, status, start_time) ==
    [id |-> id, status |-> status, start_time |-> start_time,
     result |-> "none", error |-> "none"]

IdleConsumer == [pc |-> "get", id |-> 0, content |-> "none", result |-> "none"]
IdleSubmitter == [pc |-> "idle", id |-> 0, content |-> "none"]

\* add_execution_log(exec_id, status, message)
add_execution_log(history, exec_id, status) ==
    IF exec_id \in DOMAIN history
    THEN [history EXCEPT ![exec_id] = Append(@, status)]
    ELSE Put(history, exec_id, <<status>>)

\* Status changes of the record object; an evicted record is out of the table.
SetField(execs, exec_id, field, value) ==
    IF exec_id \in DOMAIN execs
    THEN [execs EXCEPT ![exec_id] = [@ EXCEPT ![field] = value]]
    ELSE execs

NoteStatus(exec_id, status) ==
    seen' = [seen EXCEPT ![exec_id] = @ \cup {status}]

\* The time at which the record first held a terminal status.
NoteTerminal(exec_id) ==
    termAt' = IF exec_id \in DOMAIN termAt THEN termAt
              ELSE Put(termAt, exec_id, now)

\* The executions whose execute_workflow request has returned.
Returned ==
    {id \in uuids : \A s \in Submitters : submitter[s].id # id}

\* -------------------------------------------- worker: execute_workflow
\* `exec_id = str(uuid.uuid4())`; register the execution under the lock.
RegisterExecution(s, content) ==
    /\ submitter[s].pc = "idle"
    /\ \E id \in ExecIds \ uuids :
         /\ uuids' = uuids \cup {id}
         /\ active_executions' =
              Put(active_executions, id, ExecutionInfo(id, "queued", now))
         /\ submitter' = [submitter EXCEPT
                            ![s] = [pc |-> "log", id |-> id, content |-> content]]
         /\ NoteStatus(id, "queued")
    /\ UNCHANGED <<execution_history, execution_queue, consumer, now>>
    /\ UNCHANGED <<termAt, reader, sresp, engine_runs>>
    /\ UNCHANGED mgrVars

SubmitRegister(s, content) ==
    /\ RegisterExecution(s, content)
    /\ UNCHANGED prior

\* The same step, observed: the executions whose request had returned when
\* this one began are noted beside the new id.
SubmitRegisterObserved(s, content) ==
    /\ RegisterExecution(s, content)
    /\ prior' = [id \in uuids' |->
                   IF id \in DOMAIN prior THEN prior[id] ELSE Returned]

\* `add_execution_log(exec_id, 'queued', ...)`
SubmitLog(s) ==
    /\ submitter[s].pc = "log"
    /\ execution_history' =
         add_execution_log(execution_history, submitter[s].id, "queued")
    /\ submitter' = [submitter EXCEPT ![s].pc = "put"]
    /\ UNCHANGED <<active_executions, execution_queue, consumer, now, uuids, seen>>
    /\ UNCHANGED <<termAt, reader, sresp, prior, engine_runs>>
    /\ UNCHANGED mgrVars

\* `execution_queue.put((exec_id, data['content']))`, and the response.
SubmitPut(s) ==
    /\ submitter[s].pc = "put"
    /\ execution_queue' =
         Append(execution_queue, <<submitter[s].id, submitter[s].content>>)
    /\ submitter' = [submitter EXCEPT ![s] = IdleSubmitter]
    /\ UNCHANGED <<active_executions, execution_history, consumer, now, uuids, seen>>
    /\ UNCHANGED <<termAt, reader, sresp, prior, engine_runs>>
    /\ UNCHANGED mgrVars

\* --------------------------------------- worker: process_execution_queue
\* a queue handing out the item put last
ConsumerGetNewest(c) ==
    /\ consumer[c].pc = "get"
    /\ execution_queue # <<>>
    /\ LET n == Len(execution_queue) IN
         /\ execution_queue' = SubSeq(execution_queue, 1, n - 1)
         /\ consumer' = [consumer EXCEPT
              ![c] = [pc |-> IF execution_queue[n][1] \in DOMAIN active_executions
                             THEN "log_running" ELSE "cleanup",
                      id |-> execution_queue[n][1],
                      content |-> execution_queue[n][2],
                      result |-> "none"]]
    /\ UNCHANGED <<active_executions, execution_history, submitter, now, uuids, seen>>
    /\ UNCHANGED <<termAt, reader, sresp, prior, engine_runs>>
    /\ UNCHANGED mgrVars

\* `exec_id, content = execution_queue.get()`;
\* `if exec_id not in active_executions: continue`
ConsumerGet(c) ==
    /\ consumer[c].pc = "get"
    /\ execution_queue # <<>>
    /\ execution_queue' = Tail(execution_queue)
    /\ consumer' = [consumer EXCEPT
         ![c] = [pc |-> IF Head(execution_queue)[1] \in DOMAIN active_executions
                        THEN "log_running" ELSE "cleanup",
                 id |-> Head(execution_queue)[1],
                 content |-> Head(execution_queue)[2],
                 result |-> "none"]]
    /\ UNCHANGED <<active_executions, execution_history, submitter, now, uuids, seen>>
    /\ UNCHANGED <<termAt, reader, sresp, prior, engine_runs>>
    /\ UNCHANGED mgrVars

\* len(content) in the 'running' log message raises for a value without length.
HasLen(content) == content = "text"

\* `add_execution_log(exec_id, 'running', f"... {len(content)} characters")`,
\* then executor.execute(content) is entered.
ConsumerLogRunning(c) ==
    /\ consumer[c].pc = "log_running"
    /\ IF HasLen(consumer[c].content)
       THEN /\ execution_history' =
                 add_execution_log(execution_history, consumer[c].id, "running")
            /\ consumer' = [consumer EXCEPT ![c].pc = "executing"]
            /\ engine_runs' = Append(engine_runs, consumer[c].id)
       ELSE /\ consumer' = [consumer EXCEPT ![c].pc = "log_failed"]
            /\ UNCHANGED <<execution_history, engine_runs>>
    /\ UNCHANGED <<active_executions, execution_queue, submitter, now, uuids, seen>>
    /\ UNCHANGED <<termAt, reader, sresp, prior>>
    /\ UNCHANGED mgrVars

\* ActContentExecutor.execute: the engine's exceptions come back as an error
\* dict; only a failure outside _execute_async is raised.
EngineOutcomes == {"success_dict", "error_dict", "raise"}

\* `result = executor.execute(content)` returns or raises.
ConsumerExecute(c) ==
    /\ consumer[c].pc = "executing"
    /\ \E out \in EngineOutcomes :
         consumer' = [consumer EXCEPT
            ![c].pc = IF out = "raise" THEN "log_failed" ELSE "set_completed",
            ![c].result = out]
    /\ UNCHANGED <<active_executions, execution_history, execution_queue,
                   submitter, now, uuids, seen>>
    /\ UNCHANGED <<termAt, reader, sresp, prior, engine_runs>>
    /\ UNCHANGED mgrVars

\* with execution_lock: `execution.status = 'completed'`
ConsumerSetCompleted(c) ==
    /\ consumer[c].pc = "set_completed"
    /\ active_executions' =
         SetField(active_executions, consumer[c].id, "status", "completed")
    /\ NoteStatus(consumer[c].id, "completed")
    /\ NoteTerminal(consumer[c].id)
    /\ consumer' = [consumer EXCEPT ![c].pc = "set_result"]
    /\ UNCHANGED <<execution_history, execution_queue, submitter, now, uuids>>
    /\ UNCHANGED <<reader, sresp, prior, engine_runs>>
    /\ UNCHANGED mgrVars

\* with execution_lock: `execution.result = result`
ConsumerSetResult(c) ==
    /\ consumer[c].pc = "set_result"
    /\ active_executions' =
         SetField(active_executions, consumer[c].id, "result", consumer[c].result)
    /\ consumer' = [consumer EXCEPT ![c].pc = "log_completed"]
    /\ UNCHANGED <<execution_history, execution_queue, submitter, now, uuids, seen>>
    /\ UNCHANGED <<termAt, reader, sresp, prior, engine_runs>>
    /\ UNCHANGED mgrVars

\* a completion log that raises, landing in the except branch below
ConsumerLogCompletedRaises(c) ==
    /\ consumer[c].pc = "log_completed"
    /\ consumer' = [consumer EXCEPT ![c].pc = "log_failed"]
    /\ UNCHANGED <<active_executions, execution_history, execution_queue,
                   submitter, now, uuids, seen>>
    /\ UNCHANGED <<termAt, reader, sresp, prior, engine_runs>>
    /\ UNCHANGED mgrVars

\* `add_execution_log(exec_id, 'completed', f"... {result.get('status', ...)}")`:
\* result is always a dict, so nothing raises.
ConsumerLogCompleted(c) ==
    /\ consumer[c].pc = "log_completed"
    /\ execution_history' =
         add_execution_log(execution_history, consumer[c].id, "completed")
    /\ consumer' = [consumer EXCEPT ![c].pc = "cleanup"]
    /\ UNCHANGED <<active_executions, execution_queue, submitter, now, uuids, seen>>
    /\ UNCHANGED <<termAt, reader, sresp, prior, engine_runs>>
    /\ UNCHANGED mgrVars

\* except Exception: `add_execution_log(exec_id, 'failed', ...)`
ConsumerLogFailed(c) ==
    /\ consumer[c].pc = "log_failed"
    /\ execution_history' =
         add_execution_log(execution_history, consumer[c].id, "failed")
    /\ consumer' = [consumer EXCEPT ![c].pc = "set_failed"]
    /\ UNCHANGED <<active_executions, execution_queue, submitter, now, uuids, seen>>
    /\ UNCHANGED <<termAt, reader, sresp, prior, engine_runs>>
    /\ UNCHANGED mgrVars

\* with execution_lock: `execution.status = 'failed'`
ConsumerSetFailed(c) ==
    /\ consumer[c].pc = "set_failed"
    /\ active_executions' =
         SetField(active_executions, consumer[c].id, "status", "failed")
    /\ NoteStatus(consumer[c].id, "failed")
    /\ NoteTerminal(consumer[c].id)
    /\ consumer' = [consumer EXCEPT ![c].pc = "set_error"]
    /\ UNCHANGED <<execution_history, execution_queue, submitter, now, uuids>>
    /\ UNCHANGED <<reader, sresp, prior, engine_runs>>
    /\ UNCHANGED mgrVars

\* with execution_lock: `execution.error = str(e)`
ConsumerSetError(c) ==
    /\ consumer[c].pc = "set_error"
    /\ active_executions' =
         SetField(active_executions, consumer[c].id, "error", "message")
    /\ consumer' = [consumer EXCEPT ![c].pc = "cleanup"]
    /\ UNCHANGED <<execution_history, execution_queue, submitter, now, uuids, seen>>
    /\ UNCHANGED <<termAt, reader, sresp, prior, engine_runs>>
    /\ UNCHANGED mgrVars

\* ------------------------------------------------ worker: execution_status
Readers == {"r1"}

NoExecution == ExecutionInfo(0, "none", 0)

IdleReader ==
    [pc |-> "idle", id |-> 0, execution |-> NoExecution, status |-> "none",
     overdue |-> FALSE]

\* The /status response: 404, or the JSON object with its optional keys.
\* overdue: at the lookup the record had been terminal for longer than the
\* retention window.
StatusResponse(id, code, status, has_result, result, has_error, error, overdue) ==
    [id |-> id, code |-> code, status |-> status,
     has_result |-> has_result, result |-> result,
     has_error |-> has_error, error |-> error, overdue |-> overdue]

Overdue(exec_id) ==
    /\ exec_id \in DOMAIN termAt
    /\ (now - termAt[exec_id]) * TickSeconds > RETENTION_SECONDS

\* The object bound to `execution` in the handler of r.
Execution(r) ==
    IF reader[r].id \in DOMAIN active_executions
    THEN active_executions[reader[r].id] ELSE reader[r].execution

\* `execution = active_executions.get(execution_id)`; 404 when there is none.
\* The handler takes no lock.
StatusLookup(r, id) ==
    /\ reader[r].pc = "idle"
    /\ IF id \in DOMAIN active_executions
       THEN /\ reader' = [reader EXCEPT
                            ![r] = [IdleReader EXCEPT
                                      !.pc = "read_status", !.id = id,
                                      !.overdue = Overdue(id)]]
            /\ UNCHANGED sresp
       ELSE /\ sresp' = StatusResponse(id, "notfound", "error", FALSE, "none",
                                       FALSE, "none", Overdue(id))
            /\ UNCHANGED reader
    /\ UNCHANGED <<active_executions, execution_history, execution_queue,
                   consumer, submitter, now, uuids, seen, termAt,
                   prior, engine_runs>>
    /\ UNCHANGED mgrVars

\* `response = {..., 'status': execution.status, ...}`
StatusReadStatus(r) ==
    /\ reader[r].pc = "read_status"
    /\ reader' = [reader EXCEPT ![r].pc = "branch",
                                ![r].status = Execution(r).status]
    /\ UNCHANGED <<active_executions, execution_history, execution_queue,
                   consumer, submitter, now, uuids, seen, termAt, sresp,
                   prior, engine_runs>>
    /\ UNCHANGED mgrVars

\* `if execution.status == 'completed': response['result'] = execution.result`
\* `elif execution.status == 'failed': response['error'] = execution.error`
StatusRespond(r) ==
    /\ reader[r].pc = "branch"
    /\ LET execution == Execution(r) IN
         sresp' = StatusResponse(
                    reader[r].id, "ok", reader[r].status,
                    execution.status = "completed",
                    IF execution.status = "completed"
                    THEN execution.result ELSE "none",
                    execution.status = "failed",
                    IF execution.status = "failed"
                    THEN execution.error ELSE "none",
                    reader[r].overdue)
    /\ reader' = [reader EXCEPT ![r] = IdleReader]
    /\ UNCHANGED <<active_executions, execution_history, execution_queue,
                   consumer, submitter, now, uuids, seen, termAt,
                   prior, engine_runs>>
    /\ UNCHANGED mgrVars

\* ------------------------------------------ worker: cleanup_old_executions
Terminal == {"completed", "failed"}

\* a sweep that looks at the age alone
EvictableAnyStatus(execution, current_time) ==
    (current_time - execution.start_time) * TickSeconds > RETENTION_SECONDS

\* `execution.status in [...] and (current_time - execution.start_time) > 3600`
Evictable(execution, current_time) ==
    /\ execution.status \in Terminal
    /\ (current_time - execution.start_time) * TickSeconds > RETENTION_SECONDS

\* Once per evicted record: `if len(execution_history) > 20:` delete the
\* history of `sorted(execution_history.keys())[0]`.
RECURSIVE TrimHistory(_, _)
TrimHistory(history, evictions) ==
    IF evictions = 0 THEN history
    ELSE TrimHistory(
           IF Cardinality(DOMAIN history) > HISTORY_CAP
           THEN Del(history, MinOf(DOMAIN history)) ELSE history,
           evictions - 1)

EvictedIds(execs, current_time) ==
    {id \in DOMAIN execs : Evictable(execs[id], current_time)}

\* A handler that holds `execution` keeps the object after `del` takes it
\* out of the table.
KeepReferenced(readers, execs, gone) ==
    [r \in DOMAIN readers |->
        IF readers[r].pc # "idle" /\ readers[r].id \in gone
        THEN [readers[r] EXCEPT !.execution = execs[readers[r].id]]
        ELSE readers[r]]

\* a queue processor that ends after its first item
ConsumerCleanupExits(c) ==
    /\ consumer[c].pc = "cleanup"
    /\ consumer' = [consumer EXCEPT ![c].pc = "exited"]
    /\ UNCHANGED <<active_executions, execution_history, execution_queue,
                   submitter, now, uuids, seen>>
    /\ UNCHANGED <<termAt, reader, sresp, prior, engine_runs>>
    /\ UNCHANGED mgrVars

\* a cleanup that deletes the history together with the record
ConsumerCleanupDropsHistory(c) ==
    /\ consumer[c].pc = "cleanup"
    /\ LET gone == EvictedIds(active_executions, now) IN
         /\ active_executions' =
              [id \in DOMAIN active_executions \ gone |-> active_executions[id]]
         /\ execution_history' =
              [id \in DOMAIN execution_history \ gone |-> execution_history[id]]
         /\ reader' = KeepReferenced(reader, active_executions, gone)
    /\ consumer' = [consumer EXCEPT ![c] = IdleConsumer]
    /\ UNCHANGED <<execution_queue, submitter, now, uuids, seen>>
    /\ UNCHANGED <<termAt, sresp, prior, engine_runs>>
    /\ UNCHANGED mgrVars

\* finally: `execution_queue.task_done(); cleanup_old_executions()`
ConsumerCleanup(c) ==
    /\ consumer[c].pc = "cleanup"
    /\ LET gone == EvictedIds(active_executions, now) IN
         /\ active_executions' =
              [id \in DOMAIN active_executions \ gone |-> active_executions[id]]
         /\ execution_history' = TrimHistory(execution_history, Cardinality(gone))
         /\ reader' = KeepReferenced(reader, active_executions, gone)
    /\ consumer' = [consumer EXCEPT ![c] = IdleConsumer]
    /\ UNCHANGED <<execution_queue, submitter, now, uuids, seen>>
    /\ UNCHANGED <<termAt, sresp, prior, engine_runs>>
    /\ UNCHANGED mgrVars

\* time passes
Tick ==
    /\ now < MaxTicks
    /\ now' = now + 1
    /\ UNCHANGED <<active_executions, execution_history, execution_queue,
                   consumer, submitter, uuids, seen>>
    /\ UNCHANGED <<termAt, reader, sresp, prior, engine_runs>>
    /\ UNCHANGED mgrVars

\* ========================================================= specifications
\* The manager after construction, beside processes holding the host
\* ports ext.
ManagerInit(ext) ==
    /\ containers = << >>
    /\ active_ports = << >>
    /\ rt = << >>
    /\ nextCid = 1
    /\ hostPorts = ext
    /\ th = [t \in Threads |-> IdleThread]
    /\ resp = Response("none", NoArt, "none", NoCid, NoPort, "none", FALSE, {})
    /\ requests = 0

\* The worker after the executions `old` were submitted and completed at
\* time 0: their records are live, their histories logged.
WorkerInit(old) ==
    /\ active_executions =
         [id \in old |-> [ExecutionInfo(id, "completed", 0)
                            EXCEPT !.result = "success_dict"]]
    /\ execution_history =
         [id \in old |-> <<"queued", "running", "completed">>]
    /\ execution_queue = << >>
    /\ consumer = [c \in Consumers |-> IdleConsumer]
    /\ submitter = [s \in Submitters |-> IdleSubmitter]
    /\ now = 0
    /\ uuids = old
    /\ seen = [id \in ExecIds \cup old |->
                 IF id \in old THEN {"queued", "completed"} ELSE {}]
    /\ termAt = [id \in old |-> 0]
    /\ reader = [r \in Readers |-> IdleReader]
    /\ sresp = StatusResponse(0, "none", "none", FALSE, "none", FALSE, "none",
                              FALSE)
    /\ prior = << >>
    /\ engine_runs = << >>

Init ==
    /\ \E ext \in ExtPortChoices : ManagerInit(ext)
    /\ WorkerInit({})

Ops == {"start", "stop", "health", "execute"}

\* A request arrives at the concurrent manager.
Accept(t, op, a) ==
    /\ requests < MaxRequests
    /\ requests' = requests + 1
    /\ Begin(t, op, a)

\* The manager with its handlers running concurrently.
Next ==
    \/ \E t \in Threads, op \in Ops, a \in Artifacts : Accept(t, op, a)
    \/ \E t \in Threads :
         \/ StartCheck(t) \/ StartGet(t) \/ StartPurge(t)
         \/ CreateGet(t) \/ CreateRemoveOld(t) \/ CreateRun(t) \/ Register(t)
         \/ StopCheck(t) \/ StopGet(t) \/ StopRemove(t) \/ StopPurge(t)
         \/ HealthCheck(t) \/ HealthGet(t) \/ HealthPurge(t) \/ HealthUpdate(t)
         \/ ExecCheck(t) \/ ExecProbe(t) \/ ExecForward(t)
    \/ \E c \in Cids : RuntimeExit(c) \/ RuntimeRemove(c)

Spec == Init /\ [][Next]_vars

MainThread == "t1"

\* A request arrives while no other is being served.
AcceptNext(op, a) ==
    /\ AllIdle
    /\ Begin(MainThread, op, a)
    /\ UNCHANGED requests

ExitBetween(c) == AllIdle /\ RuntimeExit(c)

RemoveBetween(c) == AllIdle /\ RuntimeRemove(c)

\* The manager serving one request at a time, runtime events between requests.
SeqNext ==
    \/ \E op \in Ops, a \in Artifacts : AcceptNext(op, a)
    \/ \E t \in Threads :
         \/ StartCheck(t) \/ StartGet(t) \/ StartPurge(t)
         \/ CreateGet(t) \/ CreateRemoveOld(t) \/ CreateRun(t) \/ Register(t)
         \/ StopCheck(t) \/ StopGet(t) \/ StopRemove(t) \/ StopPurge(t)
         \/ HealthCheck(t) \/ HealthGet(t) \/ HealthPurge(t) \/ HealthUpdate(t)
         \/ ExecCheck(t) \/ ExecProbe(t) \/ ExecForward(t)
    \/ \E c \in Cids : ExitBetween(c) \/ RemoveBetween(c)

SeqSpec == Init /\ [][SeqNext]_vars

\* -------------------------------------------- manager: cleanup_on_shutdown
\* atexit: `for artifact_id, container_info in list(containers.items())`
ShutdownBegin ==
    /\ AllIdle
    /\ th' = [th EXCEPT ![MainThread] =
                [IdleThread EXCEPT !.pc = "sweep", !.op = "shutdown",
                                   !.todo = DOMAIN containers]]
    /\ UNCHANGED <<containers, active_ports, rt, nextCid, hostPorts, requests, resp>>
    /\ UNCHANGED wrkVars

\* a sweep that an error on one container ends
ShutdownOneAborts(a) ==
    /\ th[MainThread].pc = "sweep"
    /\ a \in th[MainThread].todo
    /\ th' = [th EXCEPT ![MainThread].todo = {},
                        ![MainThread].swept = Append(@, <<a, "apierror">>)]
    /\ UNCHANGED <<containers, active_ports, rt, nextCid, hostPorts, requests, resp>>
    /\ UNCHANGED wrkVars

\* One iteration: `containers.get(id); container.stop(timeout=10);
\* container.remove(force=True)`, every exception logged and passed over.
ShutdownOne(a) ==
    /\ th[MainThread].pc = "sweep"
    /\ a \in th[MainThread].todo
    /\ LET cid == containers[a].container_id IN
         \E outcome \in {"removed", "notfound", "apierror", "stopped_apierror"} :
           /\ outcome \in {"removed", "stopped_apierror"} => cid \in DOMAIN rt
           /\ outcome = "notfound" => cid \notin DOMAIN rt
           /\ rt' = CASE outcome = "removed" -> Del(rt, cid)
                      [] outcome = "stopped_apierror" ->
                           [rt EXCEPT ![cid].state = "exited"]
                      [] OTHER -> rt
           /\ th' = [th EXCEPT ![MainThread].todo = @ \ {a},
                               ![MainThread].swept = Append(@, <<a, outcome>>)]
    /\ UNCHANGED <<containers, active_ports, nextCid, hostPorts, requests, resp>>
    /\ UNCHANGED wrkVars

\* "Container cleanup completed": the process ends.
ShutdownEnd ==
    /\ th[MainThread].pc = "sweep"
    /\ th[MainThread].todo = {}
    /\ th' = [th EXCEPT ![MainThread].pc = "down"]
    /\ resp' = Response("shutdown", NoArt, "completed", NoCid, NoPort, "swept",
                        FALSE, {})
    /\ UNCHANGED <<containers, active_ports, rt, nextCid, hostPorts, requests>>
    /\ UNCHANGED wrkVars

\* The manager serving one request at a time until the process terminates.
ShutdownNext ==
    \/ \E op \in Ops, a \in Artifacts : AcceptNext(op, a)
    \/ \E t \in Threads :
         \/ StartCheck(t) \/ StartGet(t) \/ StartPurge(t)
         \/ CreateGet(t) \/ CreateRemoveOld(t) \/ CreateRun(t) \/ Register(t)
         \/ StopCheck(t) \/ StopGet(t) \/ StopRemove(t) \/ StopPurge(t)
         \/ HealthCheck(t) \/ HealthGet(t) \/ HealthPurge(t) \/ HealthUpdate(t)
         \/ ExecCheck(t) \/ ExecProbe(t) \/ ExecForward(t)
    \/ \E c \in Cids : ExitBetween(c) \/ RemoveBetween(c)
    \/ ShutdownBegin
    \/ \E a \in Artifacts : ShutdownOne(a)
    \/ ShutdownEnd

ShutdownSpec == Init /\ [][ShutdownNext]_vars

\* The manager process is killed and started again: the module-level tables
\* start empty, the containers of the runtime stay as they are.
ManagerRestart ==
    /\ AllIdle
    /\ containers' = << >>
    /\ active_ports' = << >>
    /\ resp' = Response("none", NoArt, "none", NoCid, NoPort, "none", FALSE, {})
    /\ UNCHANGED <<rt, nextCid, hostPorts, th, requests>>
    /\ UNCHANGED wrkVars

\* The manager serving one request at a time, restarted between requests.
RestartNext ==
    \/ \E op \in Ops, a \in Artifacts : AcceptNext(op, a)
    \/ \E t \in Threads :
         \/ StartCheck(t) \/ StartGet(t) \/ StartPurge(t)
         \/ CreateGet(t) \/ CreateRemoveOld(t) \/ CreateRun(t) \/ Register(t)
         \/ StopCheck(t) \/ StopGet(t) \/ StopRemove(t) \/ StopPurge(t)
         \/ HealthCheck(t) \/ HealthGet(t) \/ HealthPurge(t) \/ HealthUpdate(t)
         \/ ExecCheck(t) \/ ExecProbe(t) \/ ExecForward(t)
    \/ \E c \in Cids : ExitBetween(c) \/ RemoveBetween(c)
    \/ ManagerRestart

RestartSpec == Init /\ [][RestartNext]_vars

\* A process outside the manager ends and its host port is free again.
HostRelease(p) ==
    /\ AllIdle
    /\ p \in hostPorts
    /\ hostPorts' = hostPorts \ {p}
    /\ UNCHANGED <<containers, active_ports, rt, nextCid, requests, th, resp>>
    /\ UNCHANGED wrkVars

\* The manager serving one request at a time while the other processes of
\* the host come and go.
HostNext ==
    \/ \E op \in Ops, a \in Artifacts : AcceptNext(op, a)
    \/ \E t \in Threads :
         \/ StartCheck(t) \/ StartGet(t) \/ StartPurge(t)
         \/ CreateGet(t) \/ CreateRemoveOld(t) \/ CreateRun(t) \/ Register(t)
         \/ StopCheck(t) \/ StopGet(t) \/ StopRemove(t) \/ StopPurge(t)
         \/ HealthCheck(t) \/ HealthGet(t) \/ HealthPurge(t) \/ HealthUpdate(t)
         \/ ExecCheck(t) \/ ExecProbe(t) \/ ExecForward(t)
    \/ \E c \in Cids : ExitBetween(c) \/ RemoveBetween(c)
    \/ \E p \in BASE_PORT .. MAX_PORT : HostRelease(p)

HostSpec == Init /\ [][HostNext]_vars

\* A free host, or one where every port the start loop tries is held by
\* some other process.
ExhaustedInit ==
    /\ \E ext \in {{}, BASE_PORT .. (BASE_PORT + PORT_ATTEMPTS - 1)} :
         ManagerInit(ext)
    /\ WorkerInit({})

\* The manager serving one request at a time, on either host.
ExhaustedSpec == ExhaustedInit /\ [][SeqNext]_vars

\* Every port of the configured range is held by some other process.
CrowdedInit ==
    /\ ManagerInit(BASE_PORT .. MAX_PORT)
    /\ WorkerInit({})

\* The manager serving one request at a time on a host whose configured
\* port range is taken.
CrowdedSpec == CrowdedInit /\ [][SeqNext]_vars

\* One worker: request threads submitting, the queue processor consuming.
WorkerNext ==
    \/ \E s \in Submitters, content \in Contents : SubmitRegister(s, content)
    \/ \E s \in Submitters : SubmitLog(s) \/ SubmitPut(s)
    \/ \E c \in Consumers :
         \/ ConsumerGet(c) \/ ConsumerLogRunning(c) \/ ConsumerExecute(c)
         \/ ConsumerSetCompleted(c) \/ ConsumerSetResult(c)
         \/ ConsumerLogCompleted(c) \/ ConsumerLogFailed(c)
         \/ ConsumerSetFailed(c) \/ ConsumerSetError(c) \/ ConsumerCleanup(c)
    \/ Tick

WorkerSpec == Init /\ [][WorkerNext]_vars

\* The worker with /status requests served beside the queue processor.
StatusNext ==
    \/ \E s \in Submitters, content \in Contents : SubmitRegister(s, content)
    \/ \E s \in Submitters : SubmitLog(s) \/ SubmitPut(s)
    \/ \E c \in Consumers :
         \/ ConsumerGet(c) \/ ConsumerLogRunning(c) \/ ConsumerExecute(c)
         \/ ConsumerSetCompleted(c) \/ ConsumerSetResult(c)
         \/ ConsumerLogCompleted(c) \/ ConsumerLogFailed(c)
         \/ ConsumerSetFailed(c) \/ ConsumerSetError(c) \/ ConsumerCleanup(c)
    \/ \E r \in Readers, id \in ExecIds : StatusLookup(r, id)
    \/ \E r \in Readers : StatusReadStatus(r) \/ StatusRespond(r)
    \/ Tick

StatusSpec == Init /\ [][StatusNext]_vars

\* The worker, with the order of its /execute requests observed.
OrderNext ==
    \/ \E s \in Submitters, content \in Contents :
         SubmitRegisterObserved(s, content)
    \/ \E s \in Submitters : SubmitLog(s) \/ SubmitPut(s)
    \/ \E c \in Consumers :
         \/ ConsumerGet(c) \/ ConsumerLogRunning(c) \/ ConsumerExecute(c)
         \/ ConsumerSetCompleted(c) \/ ConsumerSetResult(c)
         \/ ConsumerLogCompleted(c) \/ ConsumerLogFailed(c)
         \/ ConsumerSetFailed(c) \/ ConsumerSetError(c) \/ ConsumerCleanup(c)
    \/ Tick

OrderSpec == Init /\ [][OrderNext]_vars

\* Earlier executions: ids sorting before or after the ids still to come,
\* one short of the history cap, or exactly the cap.
OldIdChoices ==
    {(0 - HISTORY_CAP) .. (0 - 2), (0 - HISTORY_CAP) .. (0 - 1),
     (MaxExec + 1) .. (MaxExec + HISTORY_CAP - 1),
     (MaxExec + 1) .. (MaxExec + HISTORY_CAP)}

BacklogInit ==
    /\ ManagerInit({})
    /\ \E old \in OldIdChoices : WorkerInit(old)

\* The worker with a backlog of finished executions near the history cap.
BacklogSpec == BacklogInit /\ [][WorkerNext]_vars

\* One iteration step of the `while True` loop of process_execution_queue.
ConsumerStep(c) ==
    \/ ConsumerGet(c) \/ ConsumerLogRunning(c) \/ ConsumerExecute(c)
    \/ ConsumerSetCompleted(c) \/ ConsumerSetResult(c)
    \/ ConsumerLogCompleted(c) \/ ConsumerLogFailed(c)
    \/ ConsumerSetFailed(c) \/ ConsumerSetError(c) \/ ConsumerCleanup(c)

\* The rest of an execute_workflow request once the record is registered.
SubmitStep(s) == SubmitLog(s) \/ SubmitPut(s)

\* The worker with its threads scheduled fairly: the queue processor keeps
\* running, every engine call returns or raises, and every request handler
\* runs to its response.
FairWorkerSpec ==
    /\ Init /\ [][WorkerNext]_vars
    /\ \A c \in Consumers : WF_vars(ConsumerStep(c))
    /\ \A s \in Submitters : WF_vars(SubmitStep(s))

\* ================================================================ claims
Returns(t) == th[t].pc # "idle" /\ th'[t].pc = "idle"

\* C1: under concurrent start calls for one artifact, no start creates a
\* second container for the artifact after a start has created one that is
\* still live: no start call reaches registration of a container it created
\* after finding, and removing, a running container of the same artifact.
C1_NoDoubleProvisioning ==
    \A t \in Threads : ~(th[t].pc = "register" /\ th[t].replaced)

\* C2: no two ContainerRecords with status other than stopped hold the
\* same port.
C2_ActivePortUnique ==
    \A a, b \in DOMAIN containers :
        (/\ a # b
         /\ containers[a].status # "stopped"
         /\ containers[b].status # "stopped")
        => containers[a].port # containers[b].port

PurgePcs == {"start_purge", "stop_purge_ok", "stop_purge_nf", "health_purge"}

\* C3: a purge of artifact A's record (start's stale path, stop, health's
\* missing path) removes no PortTable entry that belongs to another artifact.
C3_ReleaseOnlyOwnPort ==
    [][\A t \in Threads : \A p \in DOMAIN active_ports :
         (/\ th[t].pc \in PurgePcs
          /\ th'[t] # th[t]
          /\ p \notin DOMAIN active_ports')
         => active_ports[p] = th[t].art]_vars

\* C4: a start(A) that directly follows a successful start(A), with that
\* container still running and the runtime answering the lookup, returns
\* success with the same (containerId, port) and creates no container.
C4_StartTwiceSame ==
    [][\A t \in Threads :
         (Returns(t) /\ th[t].readopt /\ resp'.path # "apierror")
         => /\ resp'.status = "success"
            /\ resp'.cid = resp.cid /\ resp'.port = resp.port
            /\ resp'.path = "already_running"
            /\ rt' = rt /\ nextCid' = nextCid]_vars

C4_Witness ==
    resp.op = "start" /\ resp.readopt /\ resp.status = "success"

\* C5: stop(A) directly followed by stop(A): both return success and the
\* second takes the no-record branch, changing neither table.
C5_StopTwice ==
    [][\A t \in Threads :
         (Returns(t) /\ th[t].op = "stop"
          /\ resp.op = "stop" /\ resp.art = th[t].art)
         => /\ resp.status = "success"
            /\ resp'.status = "success" /\ resp'.path = "norecord"
            /\ containers' = containers /\ active_ports' = active_ports]_vars

\* C6: stop returns status success in every case, whatever the runtime
\* answers.
C6_StopAlwaysSuccess == resp.op = "stop" => resp.status = "success"

\* C7: when the runtime stopped the container or reported it gone, stop
\* returns leaving no record for the artifact and the record's port out of
\* the PortTable.
C7_StopLeavesNoRecord ==
    [][\A t \in Threads :
         (Returns(t) /\ th[t].pc \in {"stop_purge_ok", "stop_purge_nf"})
         => /\ th[t].art \notin DOMAIN containers'
            /\ th[t].port \notin DOMAIN active_ports']_vars

C7_Witness ==
    /\ resp.op = "stop" /\ resp.path \in {"stopped", "notfound"}
    /\ AllIdle
    /\ resp.art \notin DOMAIN containers

\* C8: every record with status completed or failed held status running
\* before, and queued before that.
C8_TerminalWasRunning ==
    \A id \in DOMAIN active_executions :
        active_executions[id].status \in Terminal
        => {"queued", "running"} \subseteq seen[id]

\* C9: once a record's status is completed or failed it never changes.
C9_TerminalIsFinal ==
    [][\A id \in DOMAIN active_executions \cap DOMAIN active_executions' :
         active_executions[id].status \in Terminal
         => active_executions'[id].status = active_executions[id].status]_vars

C9_Witness ==
    \E id \in DOMAIN active_executions, c \in Consumers :
        /\ active_executions[id].status = "completed"
        /\ consumer[c].id = id
        /\ consumer[c].pc = "cleanup"

InEngine == {c \in DOMAIN consumer : consumer[c].pc = "executing"}

\* C10: at most one execution is running at any instant: the engine is
\* never inside two calls, and no two records have status running.
C10_SerialExecution ==
    /\ Cardinality(InEngine) <= 1
    /\ Cardinality({id \in DOMAIN active_executions :
                      active_executions[id].status = "running"}) <= 1

C10_Witness ==
    /\ InEngine # {}
    /\ execution_queue # << >>

\* C11: every submitted execution eventually reaches a terminal status
\* (completed or failed), given that each engine call returns or raises and
\* the threads keep running: the queue processor survives every failed
\* execution and processes every queued item.
C11_EventuallyTerminal ==
    \A id \in ExecIds :
        (id \in DOMAIN active_executions) ~> (seen[id] \cap Terminal # {})

C11_Witness ==
    \E i, j \in ExecIds :
        /\ i # j
        /\ "failed" \in seen[i]
        /\ seen[j] \cap Terminal # {}
        /\ execution_history[i][Len(execution_history[i])] = "failed"
        /\ j \in DOMAIN execution_history
        /\ \E k \in 1 .. Len(execution_history[j]) :
             execution_history[j][k] \in Terminal

\* C12: a status query made when the record has been in a terminal status
\* for longer than the retention window (3600 s) returns NotFound.
C12_OverdueNotFound == sresp.overdue => sresp.code = "notfound"

\* C17: every status response carries a result iff its status is completed
\* and an error iff its status is failed; no half-updated record shows.
C17_StatusConsistent ==
    sresp.code = "ok" =>
        /\ (sresp.has_result /\ sresp.result # "none")
             <=> sresp.status = "completed"
        /\ (sresp.has_error /\ sresp.error # "none")
             <=> sresp.status = "failed"

\* C13: evicting a record from the live table leaves its history in the
\* history log, and an execution's history is dropped only in a step that
\* finds the log above the cap of 20 executions.
C13_HistoryOutlivesRecord ==
    [][\A id \in DOMAIN execution_history :
         IF id \in DOMAIN execution_history'
         THEN execution_history'[id] = execution_history[id]
              \/ id \in DOMAIN active_executions'
         ELSE Cardinality(DOMAIN execution_history) > HISTORY_CAP]_vars

C13_Witness ==
    \E i, j \in DOMAIN seen :
        /\ i \in uuids /\ i \notin DOMAIN active_executions
        /\ i \in DOMAIN execution_history
        /\ j \in uuids /\ seen[j] \cap Terminal # {}
        /\ j \notin DOMAIN execution_history

\* C14: the port start registers for a new container is the lowest port
\* of [BASE_PORT, MAX_PORT] that is not in the PortTable.
C14_LowestFreePort ==
    [][\A t \in Threads :
         (th[t].pc = "register" /\ Returns(t))
         => th[t].port = find_available_port]_vars

\* C15: health(A) that finds A's container removed outside the manager
\* deletes A's record, releases its port and returns stopped; the start(A)
\* that follows it, unless a runtime call fails, returns success with a
\* newly created running container and a fresh record for it.
C15_HealthPurgeThenStart ==
    [][\A t \in Threads :
         /\ (th[t].pc = "health_purge" /\ Returns(t))
            => /\ resp'.status = "stopped"
               /\ th[t].art \notin DOMAIN containers'
               /\ th[t].port \notin DOMAIN active_ports'
         /\ (/\ Returns(t) /\ th[t].op = "start"
             /\ resp.op = "health" /\ resp.path = "notfound"
             /\ resp.art = th[t].art
             /\ resp'.path # "apierror")
            => /\ resp'.status = "success" /\ resp'.path = "created"
               /\ resp'.cid \in DOMAIN rt' /\ rt'[resp'.cid].state = "running"
               /\ rt'[resp'.cid].name = ContainerName(th[t].art)
               /\ containers'[th[t].art] =
                    ContainerInfo(th[t].art, resp'.cid, resp'.port)
               /\ active_ports'[resp'.port] = th[t].art]_vars

C15_Witness ==
    \E t \in Threads :
        /\ th[t].op = "start" /\ th[t].pc = "register"
        /\ resp.op = "health" /\ resp.path = "notfound"
        /\ resp.art = th[t].art

\* C20: between requests, a port is in the PortTable iff some record with
\* status other than stopped holds it, and the entry names that record's
\* artifact.
C20_PortTableMatchesRecords ==
    AllIdle =>
        /\ \A p \in DOMAIN active_ports :
             /\ active_ports[p] \in DOMAIN containers
             /\ containers[active_ports[p]].port = p
             /\ containers[active_ports[p]].status # "stopped"
        /\ \A a \in DOMAIN containers :
             containers[a].status # "stopped"
             => /\ containers[a].port \in DOMAIN active_ports
                /\ active_ports[containers[a].port] = a

\* C16: execute(A, content) with no record for A returns the error
\* "Container not found", sends neither a health probe nor an execute
\* request to any worker, and leaves the tables unchanged.
C16_ExecuteWithoutRecord ==
    [][\A t \in Threads :
         (/\ th[t].pc = "exec_check" /\ th'[t] # th[t]
          /\ th[t].art \notin DOMAIN containers)
         => /\ Returns(t)
            /\ resp'.status = "error" /\ resp'.path = "container_not_found"
            /\ resp'.sent = {}
            /\ containers' = containers /\ active_ports' = active_ports
            /\ rt' = rt]_vars

C16_Witness ==
    /\ resp.op = "execute" /\ resp.path = "container_not_found"
    /\ resp.art \notin DOMAIN containers
    /\ containers # << >>

\* C19: execute(A, content) sends the execute request to the worker only
\* when A's record has status running; with a record of any other status
\* it returns the not-running error and sends the worker nothing.
C19_ExecuteOnlyWhenRunning ==
    [][\A t \in Threads :
         /\ (/\ th[t].pc = "exec_check" /\ th'[t] # th[t]
             /\ th[t].art \in DOMAIN containers
             /\ containers[th[t].art].status # "running")
            => /\ Returns(t)
               /\ resp'.status = "error"
               /\ resp'.path = "container_not_running"
               /\ resp'.sent = {}
         /\ (Returns(t) /\ th[t].op = "execute" /\ "execute" \in resp'.sent)
            => /\ th[t].art \in DOMAIN containers
               /\ containers[th[t].art].status = "running"]_vars

C19_Witness ==
    /\ resp.op = "execute" /\ resp.path = "container_not_running"
    /\ resp.art \in DOMAIN containers
    /\ containers[resp.art].status \in {"stopped", "error"}

\* C18: every port that start tries or records lies in
\* [BASE_PORT, MAX_PORT]: no candidate port, record or PortTable entry is
\* above MAX_PORT.
C18_PortsInRange ==
    /\ \A t \in Threads :
         th[t].pc \in {"c_get", "c_rm", "c_run", "register"}
         => th[t].port \in BASE_PORT .. MAX_PORT
    /\ \A a \in DOMAIN containers : containers[a].port \in BASE_PORT .. MAX_PORT
    /\ \A p \in DOMAIN active_ports : p \in BASE_PORT .. MAX_PORT

Is2xx(ans) == ans \in {"200", "204"}

\* C23: health returns stopped without a record, for a missing container
\* and for one that is not running; running when the container runs and
\* the worker answers the probe with a 2xx status; error when the probe
\* answers non-2xx or is unreachable.  A record that is kept gets the
\* verdict as its status, and its error is cleared exactly on running.
C23_HealthVerdicts ==
    [][\A t \in Threads :
         (Returns(t) /\ th[t].op = "health" /\ resp'.path # "apierror")
         => LET a == th[t].art
                verdict ==
                  CASE th[t].pc \in {"health_check", "health_purge"} -> "stopped"
                    [] th[t].obs = "stopped" -> "stopped"
                    [] Is2xx(th[t].obs) -> "running"
                    [] OTHER -> "error"
            IN /\ resp'.status = verdict
               /\ a \in DOMAIN containers'
                  => /\ containers'[a].status = verdict
                     /\ containers'[a].error =
                          IF verdict = "running" THEN "none"
                          ELSE IF verdict = "stopped" THEN containers[a].error
                          ELSE containers'[a].error
                     /\ verdict = "error" => containers'[a].error # "none"]_vars

\* C21: two concurrent start requests for different artifacts are never
\* issued the same port: a port a start is about to register is neither
\* held by another start about to register nor in the PortTable for
\* another artifact.
C21_NoPortIssuedTwice ==
    \A t \in Threads :
        th[t].pc = "register"
        => /\ \A u \in Threads \ {t} :
                (th[u].pc = "register" /\ th[u].art # th[t].art)
                => th[u].port # th[t].port
           /\ th[t].port \in DOMAIN active_ports
              => active_ports[th[t].port] = th[t].art

\* C22: no operation updates or deletes a record that a concurrent
\* operation removed or replaced after the first one's existence check:
\* every table mutation of stop, health and start's stale path finds the
\* record it looked up.
C22_CheckThenActExclusive ==
    [][\A t \in Threads :
         (th[t].pc \in PurgePcs \cup {"health_update"} /\ th'[t] # th[t])
         => /\ th[t].art \in DOMAIN containers
            /\ containers[th[t].art].container_id = th[t].cid
            /\ resp'.path # "keyerror"]_vars

\* C24: health keeps A's record and its PortTable entry on the outcomes
\* not-running, probe non-2xx and probe unreachable; it deletes a record
\* only when the runtime reports the container missing.
C24_HealthKeepsRecord ==
    [][\A t \in Threads :
         (Returns(t) /\ th[t].op = "health")
         => IF th[t].pc = "health_purge"
            THEN th[t].cid \notin DOMAIN rt
            ELSE /\ DOMAIN containers' = DOMAIN containers
                 /\ active_ports' = active_ports
                 /\ \A a \in DOMAIN containers :
                      /\ containers'[a].container_id = containers[a].container_id
                      /\ containers'[a].port = containers[a].port]_vars

C24_Witness ==
    /\ resp.op = "health" /\ resp.status \in {"stopped", "error"}
    /\ resp.path \in {"stopped", "500", "unreachable"}
    /\ resp.art \in DOMAIN containers
    /\ containers[resp.art].port \in DOMAIN active_ports

\* C25: during start a "port is already allocated" error makes start try
\* the next candidate port and is never what the caller gets; any other
\* runtime error ends the attempts at once with an error response.
C25_PortConflictRetried ==
    [][\A t \in Threads :
         (th[t].pc = "c_run" /\ th'[t] # th[t])
         => \/ /\ th'[t].pc = "register"
               /\ th[t].port \notin BoundPorts
            \/ /\ th'[t].pc = "c_get"
               /\ th[t].port \in BoundPorts
               /\ th'[t].port = th[t].port + 1
               /\ resp' = resp
            \/ /\ Returns(t)
               /\ resp'.status = "error"
               /\ resp'.path \in {"name_conflict", "apierror", "no_ports"}
               /\ resp'.path = "no_ports"
                  => /\ th[t].port \in BoundPorts
                     /\ th[t].port + 1 = BASE_PORT + PORT_ATTEMPTS]_vars

C25_Witness ==
    \E t \in Threads :
        /\ th[t].pc = "register" /\ th[t].port = BASE_PORT + 1
        /\ BASE_PORT \in hostPorts

\* C26: start(A) with a record whose container the runtime reports missing
\* releases the record's port, deletes the stale record and goes on to
\* creation; when the call succeeds A has one fresh record, for a new
\* running container, with its port entry.
C26_StaleRecordReplaced ==
    [][\A t \in Threads :
         /\ (th[t].pc = "start_purge" /\ th'[t] # th[t])
            => /\ th[t].port \notin DOMAIN active_ports'
               /\ th[t].art \notin DOMAIN containers'
               /\ th'[t].pc = "c_get"
         /\ (Returns(t) /\ th[t].stale # NoCid /\ resp'.status = "success")
            => /\ resp'.cid # th[t].stale
               /\ Running(resp'.cid)
               /\ containers'[th[t].art] =
                    ContainerInfo(th[t].art, resp'.cid, resp'.port)
               /\ active_ports'[resp'.port] = th[t].art]_vars

C26_Witness ==
    \E t \in Threads :
        /\ th[t].pc = "register" /\ th[t].stale # NoCid
        /\ th[t].art \notin DOMAIN containers

Swept(t) == {th[t].swept[i][1] : i \in 1 .. Len(th[t].swept)}

\* C27: the shutdown sweep attempts stop and remove for every tracked
\* container, once each: a failure on one container neither keeps a later
\* one from being attempted nor makes the sweep fail.
C27_ShutdownSweepsAll ==
    \A t \in Threads :
        th[t].op = "shutdown"
        => /\ Swept(t) \cup th[t].todo = DOMAIN containers
           /\ Len(th[t].swept) = Cardinality(Swept(t))
           /\ th[t].pc = "down"
              => /\ Swept(t) = DOMAIN containers
                 /\ resp.op = "shutdown" /\ resp.status = "completed"

C27_Witness ==
    \E t \in Threads :
        /\ th[t].pc = "down"
        /\ Len(th[t].swept) = 2
        /\ th[t].swept[1][2] \in {"apierror", "stopped_apierror", "notfound"}
        /\ th[t].swept[2][2] = "removed"

\* C28: an execution whose engine run fails (the engine raises inside the
\* executor, which hands back an error dict, or the executor itself raises)
\* ends with status failed, never with status completed.
C28_EngineFailureIsFailed ==
    /\ \A id \in DOMAIN active_executions :
         active_executions[id].result = "error_dict"
         => active_executions[id].status # "completed"
    /\ \A c \in Consumers :
         (consumer[c].pc \in {"set_result", "log_completed"}
          /\ consumer[c].id \in DOMAIN active_executions)
         => consumer[c].result = "success_dict"

\* C29: when the retention sweep that follows a processed item is over, the
\* history holds at most HISTORY_CAP (20) executions.
C29_HistoryCapRespected ==
    [][\A c \in Consumers :
         (consumer[c].pc = "cleanup" /\ consumer'[c].pc = "get")
         => Cardinality(DOMAIN execution_history') <= HISTORY_CAP]_vars

\* C30: when the sweep drops a history for the cap, it is the history of
\* the oldest execution: no execution submitted before the dropped one
\* keeps its history.  (The executions of ExecIds are submitted after
\* every earlier execution of the backlog.)
C30_OldestDroppedFirst ==
    [][\A id \in DOMAIN execution_history \ DOMAIN execution_history' :
         \A other \in DOMAIN execution_history' :
            ~(id \in ExecIds /\ other \notin ExecIds)]_vars

HistoryShapes ==
    {<<"queued">>, <<"queued", "running">>,
     <<"queued", "running", "completed">>, <<"queued", "running", "failed">>}

\* the submit of id has appended its queued entry
QueuedLogged(id) == \A s \in Submitters : ~(submitter[s].pc = "log" /\ submitter[s].id = id)

\* the queue processor is in the middle of handling id
BeingProcessed(id) ==
    \E c \in Consumers : consumer[c].id = id /\ consumer[c].pc # "cleanup"

\* C31: the history of every execution is the ordered sequence queued,
\* running, then one terminal entry: while the record is live the history is
\* a prefix of that sequence, nothing missing, duplicated or removed, and it
\* is the whole sequence once the execution has been handled.
C31_HistoryOrdered ==
    \A id \in DOMAIN active_executions :
        QueuedLogged(id)
        => /\ id \in DOMAIN execution_history
           /\ execution_history[id] \in HistoryShapes
           /\ (active_executions[id].status \in Terminal /\ ~BeingProcessed(id))
              => Len(execution_history[id]) = 3

\* executor.execute has been entered for id
RunStarted(id) == \E i \in 1 .. Len(engine_runs) : engine_runs[i] = id

RunIndex(id) == CHOOSE i \in 1 .. Len(engine_runs) : engine_runs[i] = id

\* executor.execute has been entered for id and has returned or raised
RunEnded(id) ==
    /\ RunStarted(id)
    /\ \A c \in Consumers : ~(consumer[c].pc = "executing" /\ consumer[c].id = id)

\* id is waiting in the queue
Queued(id) == \E i \in 1 .. Len(execution_queue) : execution_queue[i][1] = id

\* C32: the consumer starts executions in submission order: when the submit
\* of X returned before the submit of Y began, then once Y's engine run has
\* started X is no longer waiting nor being handled, and X's engine run
\* started before Y's and has ended.
C32_SubmissionOrder ==
    \A y \in DOMAIN prior : \A x \in prior[y] :
        RunStarted(y)
        => /\ ~Queued(x)
           /\ ~BeingProcessed(x)
           /\ RunStarted(x) => (RunEnded(x) /\ RunIndex(x) < RunIndex(y))

C32_Witness ==
    \E y \in DOMAIN prior : \E x \in prior[y] :
        /\ RunStarted(x) /\ RunStarted(y)
        /\ engine_runs = <<x, y>>

\* the runtime holds a running container under the artifact's name
RunningFor(runtime, a) ==
    \E c \in DOMAIN runtime :
        runtime[c].name = ContainerName(a) /\ runtime[c].state = "running"

\* C33: a health check for an artifact that has no record (the manager was
\* restarted) while its container runs in the runtime answers from the
\* runtime: when it returns, the container is tracked again or is no longer
\* running.
C33_HealthAfterRestart ==
    [][\A t \in Threads :
         (/\ Returns(t) /\ th[t].op = "health"
          /\ th[t].art \notin DOMAIN containers
          /\ RunningFor(rt, th[t].art))
         => \/ th[t].art \in DOMAIN containers'
            \/ ~RunningFor(rt', th[t].art)]_vars

\* C34: the retention sweep removes no record whose status is queued or
\* running, and every id the queue processor dequeues still has its record:
\* the `continue` of the missing-record test is never taken.
C34_SweepSparesLive ==
    [][/\ \A id \in DOMAIN active_executions \ DOMAIN active_executions' :
            active_executions[id].status \in Terminal
       /\ \A c \in Consumers :
            (consumer[c].pc = "get" /\ consumer'[c].pc # "get")
            => /\ consumer'[c].id \in DOMAIN active_executions'
               /\ consumer'[c].pc = "log_running"]_vars

C34_Witness ==
    \E c \in Consumers :
        /\ consumer[c].pc = "log_running"
        /\ consumer[c].id \in DOMAIN active_executions
        /\ active_executions[consumer[c].id].start_time = 0
        /\ now = MaxTicks
        /\ \E id \in uuids : id \notin DOMAIN active_executions

\* the number of times executor.execute was entered for id
Invocations(id) ==
    Cardinality({i \in 1 .. Len(engine_runs) : engine_runs[i] = id})

\* the number of items of the queue that carry id
QueueItems(id) ==
    Cardinality({i \in 1 .. Len(execution_queue) : execution_queue[i][1] = id})

\* the request of id has returned and the queue processor has handled its item
Handled(id) ==
    /\ id \in Returned
    /\ ~Queued(id)
    /\ \A c \in Consumers : consumer[c].id # id

\* C35: the engine is invoked exactly once for every submitted execution:
\* an id on the queue is registered and is there once, no id is run twice,
\* and an id that has left the queue has been run.
C35_EngineOncePerExecution ==
    \A id \in uuids \cap ExecIds :
        /\ QueueItems(id) <= 1
        /\ Queued(id) => id \in DOMAIN active_executions
        /\ Invocations(id) <= 1
        /\ Handled(id) => Invocations(id) = 1

CreationPcs == {"c_get", "c_rm", "c_run"}

\* C36: a start that returns an error adds no ContainerRecord and no
\* PortTable entry: no step of its creation attempts changes a table, and
\* its returning step leaves no entry that was absent before.
C36_FailedStartAddsNothing ==
    [][\A t \in Threads :
         /\ (th[t].op = "start" /\ th[t].pc \in CreationPcs /\ th'[t] # th[t])
            => (containers' = containers /\ active_ports' = active_ports)
         /\ (Returns(t) /\ th[t].op = "start" /\ resp'.status = "error")
            => /\ DOMAIN containers' \subseteq DOMAIN containers
               /\ DOMAIN active_ports' \subseteq DOMAIN active_ports]_vars

C36_Witness ==
    /\ resp.op = "start" /\ resp.status = "error" /\ resp.path = "no_ports"
    /\ AllIdle
    /\ resp.art \notin DOMAIN containers
    /\ \A p \in DOMAIN active_ports : active_ports[p] # resp.art

PortsOf(ports, a) == {p \in DOMAIN ports : ports[p] = a}

\* C37: after a successful start(A) exactly one PortTable entry maps to A,
\* the port of A's current record; the port entry of a record that start
\* replaced does not survive.
C37_OnePortPerArtifact ==
    [][\A t \in Threads :
         (Returns(t) /\ th[t].op = "start" /\ resp'.status = "success")
         => /\ th[t].art \in DOMAIN containers'
            /\ PortsOf(active_ports', th[t].art)
                 = {containers'[th[t].art].port}]_vars

\* C38: whenever start(A) returns success, A's record has status running
\* (also after a health check had set it to error), so that an execute(A)
\* issued next is not turned away for the record's status.
C38_StartLeavesRunning ==
    [][\A t \in Threads :
         (Returns(t) /\ th[t].op = "start" /\ resp'.status = "success")
         => /\ th[t].art \in DOMAIN containers'
            /\ containers'[th[t].art].status = "running"]_vars
====
